---- MODULE Spec2Model ----
(***************************************************************************)
(* A model of onvif/client.py (ONVIFCamera, ONVIFService,                  *)
(* UsernameDigestTokenDtDiff, safeFunc) and onvif/definition.py (SERVICES).*)
(*                                                                         *)
(* Python strings that the code takes apart (host, xaddr) are sequences of *)
(* tokens, so that startswith() and the '%s:%s/onvif/device_service'       *)
(* formatting are computed.  The empty sequence stands for both None and   *)
(* '' where the code only tests truthiness ("if host", "if not xaddr").    *)
(* Other Python values are records tagged by a field "kind".               *)
(*                                                                         *)
(* update_xaddrs and update_url are coroutines: each runs atomically from  *)
(* one await to the next, and any other call on the camera may run while   *)
(* it is suspended.  All of them run on the event loop's thread, so the    *)
(* RLock services_lock is always re-entered and never blocks; lock_count   *)
(* is its recursion depth.                                                 *)
(*                                                                         *)
(* The callers considered: get_service, createService and get_definition   *)
(* are called at any time, also while a coroutine is suspended;            *)
(* update_xaddrs and an update_url that changes the location are not in    *)
(* flight together; a camera constructed with adjust_time is not moved.    *)
(*                                                                         *)
(* Spec is the camera on the event loop.  Three further specifications     *)
(* look at one object each, the rest of the state standing still:          *)
(* TokenSpec at one UsernameDigestTokenDtDiff and its apply, CallSpec at   *)
(* one operation of an ONVIFService called through service_wrapper, and    *)
(* ThreadSpec at createService and get_service called from two threads,    *)
(* where services_lock does block.                                         *)
(***************************************************************************)
EXTENDS Integers, Sequences, FiniteSets, TLC

(* ---------------------------------------------------------------------- *)
(* Python values                                                           *)
(* ---------------------------------------------------------------------- *)
None == [kind |-> "None"]

PyStr(s) == [kind |-> "str", s |-> s]

PyInt(n) == [kind |-> "int", n |-> n]

PyBool(b) == [kind |-> "bool", b |-> b]

PyDict(d) == [kind |-> "dict", d |-> d]

TimeDelta(d) == [kind |-> "timedelta", d |-> d]

DateTime(t) == [kind |-> "datetime", t |-> t]

BoundMethod(n) == [kind |-> "method", name |-> n]

\* bool(v) for the values above
Truthy(v) ==
    CASE v.kind = "None"      -> FALSE
      [] v.kind = "str"       -> v.s # <<>>
      [] v.kind = "int"       -> v.n # 0
      [] v.kind = "bool"      -> v.b
      [] v.kind = "dict"      -> DOMAIN v.d # {}
      [] v.kind = "timedelta" -> v.d # 0
      [] OTHER                -> TRUE

\* dict.get(k): None is the empty sequence
DictGet(d, k) == IF k \in DOMAIN d THEN d[k] ELSE <<>>

\* d[k] = v
DictSet(d, k, v) == [x \in DOMAIN d \cup {k} |-> IF x = k THEN v ELSE d[x]]

\* str.lower() on the names the model uses
LowerTable ==
    [Media |-> "media", MEDIA |-> "media", Events |-> "events",
     Device |-> "device", DeviceMgmt |-> "devicemgmt", PTZ |-> "ptz",
     Host |-> "host"]

str_lower(s) == IF s \in DOMAIN LowerTable THEN LowerTable[s] ELSE s

(* ---------------------------------------------------------------------- *)
(* definition.py                                                           *)
(* ---------------------------------------------------------------------- *)
NS == "http://www.onvif.org/"

SI(ns, wsdl, binding, portType) ==
    [ns |-> ns, wsdl |-> wsdl, binding |-> binding, portType |-> portType]

SERVICES ==
    [devicemgmt   |-> SI(NS \o "ver10/device/wsdl", "devicemgmt.wsdl", "DeviceBinding", ""),
     media        |-> SI(NS \o "ver10/media/wsdl", "media.wsdl", "MediaBinding", ""),
     ptz          |-> SI(NS \o "ver20/ptz/wsdl", "ptz.wsdl", "PTZBinding", ""),
     imaging      |-> SI(NS \o "ver20/imaging/wsdl", "imaging.wsdl", "ImagingBinding", ""),
     deviceio     |-> SI(NS \o "ver10/deviceIO/wsdl", "deviceio.wsdl", "DeviceIOBinding", ""),
     events       |-> SI(NS \o "ver10/events/wsdl", "events.wsdl", "EventBinding", ""),
     pullpoint    |-> SI(NS \o "ver10/events/wsdl", "events.wsdl",
                         "PullPointSubscriptionBinding", "PullPointSubscription"),
     notification |-> SI(NS \o "ver10/events/wsdl", "events.wsdl",
                         "NotificationProducerBinding", ""),
     subscription |-> SI(NS \o "ver10/events/wsdl", "events.wsdl",
                         "SubscriptionManagerBinding", ""),
     analytics    |-> SI(NS \o "ver20/analytics/wsdl", "analytics.wsdl",
                         "AnalyticsEngineBinding", ""),
     recording    |-> SI(NS \o "ver10/recording/wsdl", "recording.wsdl", "RecordingBinding", ""),
     search       |-> SI(NS \o "ver10/search/wsdl", "search.wsdl", "SearchBinding", ""),
     replay       |-> SI(NS \o "ver10/replay/wsdl", "replay.wsdl", "ReplayBinding", ""),
     receiver     |-> SI(NS \o "ver10/receiver/wsdl", "receiver.wsdl", "ReceiverBinding", "")]

\* ONVIFCamera.PullPointSubscription
PullPointSubscription == "http://www.onvif.org/ver10/events/wsdl/PullPointSubscription"

(* ---------------------------------------------------------------------- *)
(* Inputs                                                                  *)
(* ---------------------------------------------------------------------- *)
\* (host, port) arguments of update_url: both absent, the location the
\* camera is constructed with, and another one with a scheme in the host
UrlArgs == {<<<<>>, 0>>, <<<<"cam1">>, 80>>, <<<<"https://", "cam2">>, 8080>>}

\* names passed to get_service
CallNames == {"devicemgmt", "Media", "nosuch", "host"}

\* (name, portType) passed to createService and to get_definition ('' is None)
CreateArgs == {<<"devicemgmt", "">>, <<"media", "">>, <<"nosuch", "">>}

DefinitionArgs == {<<"devicemgmt", "">>, <<"media", "">>, <<"nosuch", "">>,
                   <<"pullpoint", "PullPointSubscription">>}

\* what the file system and zeep do to one construction: path.isfile(wsdlpath)
\* and whether ONVIFService.__init__ gets through zeep
Envs == {[isfile |-> TRUE, zeep_ok |-> TRUE],
         [isfile |-> FALSE, zeep_ok |-> TRUE],
         [isfile |-> TRUE, zeep_ok |-> FALSE]}

\* one capability of a GetCapabilities response: null, an object whose
\* ['XAddr'] raises, or an object with an XAddr
NullCap == [kind |-> "None"]

BadCap == [kind |-> "bad"]

Cap(x) == [kind |-> "cap", XAddr |-> x]

\* GetCapabilities responses: capability name -> capability
CapabilityResponses ==
    {[Device |-> Cap(<<"device1">>), Events |-> NullCap, Media |-> Cap(<<"media1">>)],
     [Device |-> Cap(<<"device1">>), Events |-> Cap(<<"events1">>), Media |-> Cap(<<"media2">>)],
     [Device |-> Cap(<<"device1">>), Events |-> Cap(<<"events1">>), Media |-> BadCap]}

\* iteration order of "for name in capabilities"
CapOrder == <<"Device", "Events", "Media">>

\* device clock and local clock readings of GetSystemDateAndTime / utcnow()
CamDates == {10, 11}

UtcNow == 10

\* address returned by CreatePullPointSubscription
PullPointAddrs == {<<"subscription1">>}

(* ---------------------------------------------------------------------- *)
(* State                                                                   *)
(* ---------------------------------------------------------------------- *)
VARIABLES
    host,          \* self.host
    port,          \* self.port
    adjust_time,   \* self.adjust_time
    dt_diff,       \* self.dt_diff
    xaddrs,        \* self.xaddrs
    services,      \* self.services; setattr(self, name, service) keeps the
                   \* attribute of the same name equal to services[name]
    event,         \* self.event
    capabilities,  \* self.capabilities
    lock_count,    \* recursion depth of self.services_lock
    boot_pc,       \* position of the update_xaddrs coroutine
    boot_outcome,  \* how the last update_xaddrs ended
    url_pc,        \* position of the update_url coroutine
    \* what a test observes of one update_url call, kept while the call
    \* runs and in the state its last step leaves, and reset by the next step
    url_pre,       \* host, port and cached names when update_url was called
    url_new,       \* names whose service object was constructed since then
    url_fetches,   \* GetCapabilities calls the call has issued
    last,          \* the step taken last and what it returned or raised
    \* one UsernameDigestTokenDtDiff
    created,       \* self.created
    dtDiff,        \* self.dtDiff
    clock,         \* what datetime.utcnow() returns
    created0,      \* self.created as the constructor left it
    applies,       \* number of apply calls so far
    token_last,    \* the last apply: the clock then, the timestamp handed
                   \* to UsernameToken.apply, the exception
    \* one operation of an ONVIFService called through service_wrapper
    call_pc,       \* "pending" while the awaitable it returned is not awaited
    awaitable,     \* that awaitable
    call_last,     \* what the caller got last: a value or an exception
    \* createService and get_service called from threads
    threads,       \* per thread: where it is in the call and its locals
    lock_owner     \* the thread that holds services_lock

camera_vars == <<host, port, adjust_time, dt_diff, xaddrs, services, event,
                 capabilities, lock_count, boot_pc, boot_outcome,
                 url_pc, url_pre, url_new, url_fetches, last>>

token_vars == <<created, dtDiff, clock, created0, applies, token_last>>

call_vars == <<call_pc, awaitable, call_last>>

thread_vars == <<threads, lock_owner>>

vars == <<camera_vars, token_vars, call_vars, thread_vars>>

\* the camera object as the methods see it
Self ==
    [host |-> host, port |-> port, dt_diff |-> dt_diff, xaddrs |-> xaddrs,
     services |-> services, event |-> event, capabilities |-> capabilities,
     adjust_time |-> adjust_time,
     url_new |-> IF url_pc = "idle" THEN {} ELSE url_new,
     url_running |-> url_pc # "idle"]

Commit(self) ==
    /\ host' = self.host
    /\ port' = self.port
    /\ dt_diff' = self.dt_diff
    /\ xaddrs' = self.xaddrs
    /\ services' = self.services
    /\ event' = self.event
    /\ capabilities' = self.capabilities
    /\ adjust_time' = self.adjust_time
    /\ url_new' = self.url_new
    /\ UNCHANGED <<token_vars, call_vars, thread_vars>>

(* ---------------------------------------------------------------------- *)
(* ONVIFService                                                            *)
(* ---------------------------------------------------------------------- *)
\* ONVIFService.__init__: the object built when zeep accepts the binding
ONVIFService(name, xaddr, url, dtdiff, binding_name) ==
    [kind |-> "client", name |-> name, xaddr |-> xaddr,
     url |-> url, dt_diff |-> dtdiff, binding_name |-> binding_name]

(* ---------------------------------------------------------------------- *)
(* ONVIFCamera                                                             *)
(* ---------------------------------------------------------------------- *)
\* the xaddr of devicemgmt, lines 283-286
DeviceXAddr(h, p) ==
    LET xaddr == IF h # <<>> /\ h[1] \in {"http://", "https://"}
                 THEN h
                 ELSE <<"http://">> \o h
    IN  xaddr \o <<":", p, "/onvif/device_service">>

\* get_definition without the fixed devicemgmt address: every service,
\* devicemgmt too, is looked up in xaddrs
get_definition_from_xaddrs(self, name, portType, isfile) ==
    IF name \notin DOMAIN SERVICES
    THEN [exc |-> "UnknownService", xaddr |-> <<>>, wsdlpath |-> "", binding_name |-> <<>>]
    ELSE
      LET ns0 == SERVICES[name].ns
          binding_name == <<ns0, SERVICES[name].binding>>
          ns == IF portType # "" THEN ns0 \o "/" \o portType ELSE ns0
          wsdlpath == "wsdl/" \o SERVICES[name].wsdl
          xaddr == DictGet(self.xaddrs, ns)
      IN  IF ~isfile
          THEN [exc |-> "DefinitionNotFound", xaddr |-> <<>>, wsdlpath |-> wsdlpath,
                binding_name |-> binding_name]
          ELSE IF xaddr = <<>>
          THEN [exc |-> "UnsupportedService", xaddr |-> <<>>,
                wsdlpath |-> wsdlpath, binding_name |-> binding_name]
          ELSE [exc |-> "", xaddr |-> xaddr, wsdlpath |-> wsdlpath,
                binding_name |-> binding_name]

\* get_definition(name, portType); isfile is path.isfile(wsdlpath)
get_definition(self, name, portType, isfile) ==
    IF name \notin DOMAIN SERVICES
    THEN [exc |-> "UnknownService", xaddr |-> <<>>, wsdlpath |-> "", binding_name |-> <<>>]
    ELSE
      LET wsdl_file == SERVICES[name].wsdl
          ns0 == SERVICES[name].ns
          binding_name == <<ns0, SERVICES[name].binding>>
          ns == IF portType # "" THEN ns0 \o "/" \o portType ELSE ns0
          wsdlpath == "wsdl/" \o wsdl_file
      IN  IF ~isfile
          THEN [exc |-> "DefinitionNotFound", xaddr |-> <<>>, wsdlpath |-> wsdlpath,
                binding_name |-> binding_name]
          ELSE IF name = "devicemgmt"
          THEN [exc |-> "", xaddr |-> DeviceXAddr(self.host, self.port),
                wsdlpath |-> wsdlpath, binding_name |-> binding_name]
          ELSE LET xaddr == DictGet(self.xaddrs, ns)
               IN  IF xaddr = <<>>
                   THEN [exc |-> "UnsupportedService", xaddr |-> <<>>,
                         wsdlpath |-> wsdlpath, binding_name |-> binding_name]
                   ELSE [exc |-> "", xaddr |-> xaddr, wsdlpath |-> wsdlpath,
                         binding_name |-> binding_name]

\* Object identity.  services[name] is the object itself.  self.event is
\* EventRef while it is the very object in services['events'], and a copy of
\* that object once createService has put another one there.  url_new is
\* the set of names whose object was constructed since the running (or
\* last) update_url was called: an object of url_pre.services is still the
\* same object exactly when its name is not in url_new.
EventRef == [kind |-> "ref", name |-> "events"]

\* a store that rebinds self.services to a dict with the one entry
StoreServiceAlone(self, name, service) ==
    [self EXCEPT
        !.services = [k \in {name} |-> service],
        !.event = IF self.event = EventRef /\ name = "events"
                  THEN self.services["events"]
                  ELSE self.event,
        !.url_new = IF self.url_running THEN self.url_new \cup {name}
                    ELSE self.url_new]

\* the camera after services[name] = service; setattr(self, name, service)
StoreService(self, name, service) ==
    [self EXCEPT
        !.services = DictSet(self.services, name, service),
        !.event = IF self.event = EventRef /\ name = "events"
                  THEN self.services["events"]
                  ELSE self.event,
        !.url_new = IF self.url_running THEN self.url_new \cup {name}
                    ELSE self.url_new]

\* createService that drops the cached entry of the name when the
\* construction fails
createService_evicting(self, name0, portType, isfile, zeep_ok) ==
    LET name == str_lower(name0)
        def == get_definition(self, name, portType, isfile)
    IN  IF def.exc # ""
        THEN [exc |-> def.exc, ret |-> None, made |-> FALSE, self |-> self]
        ELSE IF ~zeep_ok
        THEN [exc |-> "ConstructionFailed", ret |-> None, made |-> FALSE,
              self |-> [self EXCEPT !.services =
                           [k \in DOMAIN self.services \ {name} |-> self.services[k]]]]
        ELSE LET service == ONVIFService(name, def.xaddr, def.wsdlpath,
                                         self.dt_diff, def.binding_name)
             IN  [exc |-> "", ret |-> service, made |-> TRUE,
                  self |-> StoreService(self, name, service)]

\* createService(name, portType); zeep_ok is whether ONVIFService.__init__
\* gets through zeep without an exception.  Returns the exception ('' for
\* none), the service, whether an ONVIFService was constructed, and the
\* camera afterwards.
createService(self, name0, portType, isfile, zeep_ok) ==
    LET name == str_lower(name0)
        def == get_definition(self, name, portType, isfile)
    IN  IF def.exc # ""
        THEN [exc |-> def.exc, ret |-> None, made |-> FALSE, self |-> self]
        ELSE IF ~zeep_ok
        THEN [exc |-> "ConstructionFailed", ret |-> None, made |-> FALSE, self |-> self]
        ELSE LET service == ONVIFService(name, def.xaddr, def.wsdlpath,
                                         self.dt_diff, def.binding_name)
             IN  [exc |-> "", ret |-> service, made |-> TRUE,
                  self |-> StoreService(self, name, service)]

\* getattr(self, name, None)
getattr_self(self, name) ==
    CASE name \in DOMAIN self.services -> self.services[name]
      [] name = "event"        -> IF self.event = EventRef
                                  THEN self.services["events"]
                                  ELSE self.event
      [] name = "capabilities" -> self.capabilities
      [] name = "host"         -> PyStr(self.host)
      [] name = "port"         -> PyInt(self.port)
      [] name = "dt_diff"      -> self.dt_diff
      [] name = "adjust_time"  -> PyBool(self.adjust_time)
      [] name = "xaddrs"       -> PyDict(self.xaddrs)
      [] name = "services"     -> PyDict(self.services)
      [] name \in {"update_xaddrs", "update_url", "get_service",
                   "get_definition"} -> BoundMethod(name)
      [] OTHER                 -> None

\* get_service that creates on a miss whatever create says
get_service_always_create(self, name, create, isfile, zeep_ok) ==
    LET service == getattr_self(self, str_lower(name))
    IN  IF ~Truthy(service)
        THEN createService(self, str_lower(name), "", isfile, zeep_ok)
        ELSE [exc |-> "", ret |-> service, made |-> FALSE, self |-> self]

\* get_service that looks the attribute up under the name as written
get_service_case_sensitive(self, name, create, isfile, zeep_ok) ==
    LET service == getattr_self(self, name)
    IN  IF ~Truthy(service) /\ create
        THEN createService(self, str_lower(name), "", isfile, zeep_ok)
        ELSE [exc |-> "", ret |-> service, made |-> FALSE, self |-> self]

\* get_service(name, create)
get_service(self, name, create, isfile, zeep_ok) ==
    LET service == getattr_self(self, str_lower(name))
    IN  IF ~Truthy(service) /\ create
        THEN createService(self, str_lower(name), "", isfile, zeep_ok)
        ELSE [exc |-> "", ret |-> service, made |-> FALSE, self |-> self]

(* ---------------------------------------------------------------------- *)
(* Initial state: ONVIFCamera.__init__                                     *)
(* ---------------------------------------------------------------------- *)
NoPre == [host |-> <<>>, port |-> 0, names |-> {}]

\* a step outside update_url keeps the observations of a running call only
UrlObserved ==
    /\ url_pre' = IF url_pc = "idle" THEN NoPre ELSE url_pre
    /\ url_fetches' = IF url_pc = "idle" THEN 0 ELSE url_fetches

NoCall == [op |-> "init", name |-> "", create |-> FALSE, portType |-> "",
           exc |-> "", ret |-> None, made |-> FALSE]

NoApply == [op |-> "init", now |-> 0, stamp |-> None, exc |-> ""]

\* a token nobody applies, as ONVIFService.__init__ constructs it (line 94)
TokenUnused ==
    /\ created = None
    /\ dtDiff = None
    /\ clock = 0
    /\ created0 = None
    /\ applies = 0
    /\ token_last = NoApply

NoRemoteCall == [op |-> "init", name |-> "", params |-> None, retried |-> FALSE,
                 exc |-> "", cause |-> "", ret |-> None]

\* no operation called yet
CallIdle ==
    /\ call_pc = "idle"
    /\ awaitable = None
    /\ call_last = NoRemoteCall

Threads == {1, 2}

NoThread == 0

IdleThread == [pc |-> "idle", op |-> "", name |-> "", def |-> None,
               service |-> None, exc |-> "", ret |-> None, made |-> FALSE,
               overlapped |-> FALSE]

\* no thread but the event loop's
NoThreads ==
    /\ threads = [t \in Threads |-> IdleThread]
    /\ lock_owner = NoThread

Init ==
    /\ TokenUnused
    /\ CallIdle
    /\ NoThreads
    /\ host = <<"cam1">>
    /\ port = 80
    /\ adjust_time \in BOOLEAN
    /\ dt_diff = None
    /\ xaddrs = <<>>
    /\ services = <<>>
    /\ event = None
    /\ capabilities = None
    /\ lock_count = 0
    /\ boot_pc = "idle"
    /\ boot_outcome = "never"
    /\ url_pc = "idle"
    /\ url_pre = NoPre
    /\ url_new = {}
    /\ url_fetches = 0
    /\ last = NoCall

\* the coroutines are not touched by a synchronous call
AsyncUnchanged ==
    /\ UNCHANGED <<lock_count, boot_pc, boot_outcome, url_pc>>
    /\ UrlObserved

(* ---------------------------------------------------------------------- *)
(* Synchronous calls                                                       *)
(* ---------------------------------------------------------------------- *)
GetService ==
    \E name \in CallNames, create \in BOOLEAN, env \in Envs :
        LET r == get_service(Self, name, create, env.isfile, env.zeep_ok)
        IN  /\ Commit(r.self)
            /\ last' = [op |-> "get_service", name |-> name, create |-> create,
                        portType |-> "", exc |-> r.exc, ret |-> r.ret,
                        made |-> r.made]
            /\ AsyncUnchanged

CreateService ==
    \E arg \in CreateArgs, env \in Envs :
        LET name == arg[1]
            portType == arg[2]
            r == createService(Self, name, portType, env.isfile, env.zeep_ok)
        IN  /\ Commit(r.self)
            /\ last' = [op |-> "createService", name |-> name, create |-> TRUE,
                        portType |-> portType, exc |-> r.exc, ret |-> r.ret,
                        made |-> r.made]
            /\ AsyncUnchanged

GetDefinition ==
    \E arg \in DefinitionArgs, isfile \in BOOLEAN :
        LET name == arg[1]
            portType == arg[2]
            r == get_definition(Self, name, portType, isfile)
        IN  /\ Commit(Self)
            /\ last' = [op |-> "get_definition", name |-> name, create |-> FALSE,
                        portType |-> portType, exc |-> r.exc,
                        ret |-> IF r.exc = "" THEN PyStr(r.xaddr) ELSE None,
                        made |-> FALSE]
            /\ AsyncUnchanged

(* ---------------------------------------------------------------------- *)
(* update_xaddrs                                                           *)
(* ---------------------------------------------------------------------- *)
RECURSIVE RecordCapabilitiesButLast(_, _, _)
\* the loop of lines 220-227 stopping one entry early
RecordCapabilitiesButLast(xa, caps, i) ==
    IF i >= Len(CapOrder)
    THEN xa
    ELSE LET name == CapOrder[i]
             capability == caps[name]
         IN  IF str_lower(name) \in DOMAIN SERVICES /\ capability.kind = "cap"
             THEN RecordCapabilitiesButLast(
                      DictSet(xa, SERVICES[str_lower(name)].ns, capability.XAddr),
                      caps, i + 1)
             ELSE RecordCapabilitiesButLast(xa, caps, i + 1)

RECURSIVE RecordCapabilitiesAllOrNothing(_, _, _)
\* the loop of lines 220-227 with the try around the whole loop: the first
\* entry that raises ends it and the map is reset
RecordCapabilitiesAllOrNothing(xa, caps, i) ==
    IF i > Len(CapOrder)
    THEN xa
    ELSE LET name == CapOrder[i]
             capability == caps[name]
         IN  IF str_lower(name) \in DOMAIN SERVICES /\ capability.kind # "None"
             THEN IF capability.kind = "bad"
                  THEN <<>>
                  ELSE RecordCapabilitiesAllOrNothing(
                           DictSet(xa, SERVICES[str_lower(name)].ns, capability.XAddr),
                           caps, i + 1)
             ELSE RecordCapabilitiesAllOrNothing(xa, caps, i + 1)

RECURSIVE RecordCapabilities(_, _, _)
\* the loop of lines 220-227 from position i of the response
RecordCapabilities(xa, caps, i) ==
    IF i > Len(CapOrder)
    THEN xa
    ELSE LET name == CapOrder[i]
             capability == caps[name]
         IN  IF str_lower(name) \in DOMAIN SERVICES /\ capability.kind # "None"
             THEN IF capability.kind = "bad"
                  THEN RecordCapabilities(xa, caps, i + 1)  \* logged, skipped
                  ELSE RecordCapabilities(
                           DictSet(xa, SERVICES[str_lower(name)].ns, capability.XAddr),
                           caps, i + 1)
             ELSE RecordCapabilities(xa, caps, i + 1)

\* what the first two steps of update_xaddrs report: the reply consumed and
\* the remote call issued before suspending ('' for none) with the client
\* object the call was made on (self.devicemgmt as read on lines 212, 219).
\* The other two steps report the reply they consumed, None for a failure.
Issued(call, via, reply) ==
    [kind |-> "issued", call |-> call, via |-> via, reply |-> reply]

\* lines 209-212 and, without adjust_time, on to the await of line 219
update_xaddrs_begin(self, isfile, zeep_ok) ==
    LET s1 == [self EXCEPT !.dt_diff = None]
        r == createService(s1, "devicemgmt", "", isfile, zeep_ok)
    IN  IF r.exc # ""
        THEN [exc |-> r.exc, pc |-> "idle", self |-> r.self,
              report |-> Issued("", None, None)]
        ELSE IF self.adjust_time
        THEN [exc |-> "", pc |-> "await_datetime", self |-> r.self,
              report |-> Issued("GetSystemDateAndTime", r.ret, None)]
        ELSE [exc |-> "", pc |-> "await_capabilities",
              self |-> [r.self EXCEPT !.xaddrs = <<>>],
              report |-> Issued("GetCapabilities", r.ret, None)]

\* lines 212-219 without the createService of line 216: dt_diff is set and
\* GetCapabilities goes through the devicemgmt client built on line 210
update_xaddrs_datetime_no_rebuild(self, reply, isfile, zeep_ok) ==
    IF ~reply.ok
    THEN [exc |-> "RemoteError", pc |-> "idle", self |-> self,
          report |-> Issued("", None, reply)]
    ELSE LET s1 == [self EXCEPT !.dt_diff = TimeDelta(reply.cam_date - UtcNow)]
         IN  [exc |-> "", pc |-> "await_capabilities",
              self |-> [s1 EXCEPT !.xaddrs = <<>>],
              report |-> Issued("GetCapabilities", s1.services["devicemgmt"], reply)]

\* lines 212-219: GetSystemDateAndTime has answered (or raised).  What
\* "await self.devicemgmt.GetSystemDateAndTime().UTCDateTime" yields is up
\* to the transport behind the client: a date or an exception.
update_xaddrs_datetime(self, reply, isfile, zeep_ok) ==
    IF ~reply.ok
    THEN [exc |-> "RemoteError", pc |-> "idle", self |-> self,
          report |-> Issued("", None, reply)]
    ELSE LET s1 == [self EXCEPT !.dt_diff = TimeDelta(reply.cam_date - UtcNow)]
             r == createService(s1, "devicemgmt", "", isfile, zeep_ok)
         IN  IF r.exc # ""
             THEN [exc |-> r.exc, pc |-> "idle", self |-> r.self,
                   report |-> Issued("", None, reply)]
             ELSE [exc |-> "", pc |-> "await_capabilities",
                   self |-> [r.self EXCEPT !.xaddrs = <<>>],
                   report |-> Issued("GetCapabilities", r.ret, reply)]

\* lines 219-232: GetCapabilities has answered (or raised)
update_xaddrs_capabilities(self, reply, isfile, zeep_ok) ==
    IF ~reply.ok
    THEN [exc |-> "RemoteError", pc |-> "idle", self |-> self, report |-> None]
    ELSE LET s1 == [self EXCEPT !.xaddrs = RecordCapabilities(self.xaddrs, reply.caps, 1)]
             r == createService(s1, "events", "", isfile, zeep_ok)
         IN  IF r.exc # ""
             THEN [exc |-> "", pc |-> "idle", self |-> r.self,  \* except: pass
                   report |-> PyDict(reply.caps)]
             ELSE [exc |-> "", pc |-> "await_pullpoint",
                   self |-> [r.self EXCEPT !.event = EventRef],
                   report |-> PyDict(reply.caps)]

\* lines 232-236 without the except clause: a failed
\* CreatePullPointSubscription ends update_xaddrs with its exception
update_xaddrs_pullpoint_raising(self, reply) ==
    IF ~reply.ok
    THEN [exc |-> "RemoteError", pc |-> "idle", self |-> self, report |-> None]
    ELSE [exc |-> "", pc |-> "idle",
          self |-> [self EXCEPT !.xaddrs = DictSet(self.xaddrs, PullPointSubscription,
                                                   reply.addr)],
          report |-> PyStr(reply.addr)]

\* lines 232-236: CreatePullPointSubscription has answered (or raised)
update_xaddrs_pullpoint(self, reply) ==
    IF ~reply.ok
    THEN [exc |-> "", pc |-> "idle", self |-> self, report |-> None]  \* except: pass
    ELSE [exc |-> "", pc |-> "idle",
          self |-> [self EXCEPT !.xaddrs = DictSet(self.xaddrs, PullPointSubscription,
                                                   reply.addr)],
          report |-> PyStr(reply.addr)]

BootStep(op, r, lock) ==
    /\ Commit(r.self)
    /\ boot_pc' = r.pc
    /\ boot_outcome' = IF r.exc # "" THEN "failed"
                       ELSE IF r.pc = "idle" THEN "ok" ELSE boot_outcome
    /\ lock_count' = lock
    /\ last' = [op |-> op, name |-> "", create |-> FALSE, portType |-> "",
                exc |-> r.exc, ret |-> r.report, made |-> FALSE]
    /\ UNCHANGED url_pc
    /\ UrlObserved

UpdateXaddrs ==
    /\ boot_pc = "idle"
    /\ url_pc = "idle"
    /\ \E env \in Envs :
           BootStep("update_xaddrs", update_xaddrs_begin(Self, env.isfile, env.zeep_ok),
                    lock_count)

UpdateXaddrsDateTime ==
    /\ boot_pc = "await_datetime"
    /\ \E reply \in [ok : {TRUE}, cam_date : CamDates] \cup [ok : {FALSE}, cam_date : {0}],
          env \in Envs :
           BootStep("update_xaddrs:datetime",
                    update_xaddrs_datetime(Self, reply, env.isfile, env.zeep_ok),
                    lock_count)

UpdateXaddrsCapabilities ==
    /\ boot_pc = "await_capabilities"
    /\ \E reply \in [ok : {TRUE}, caps : CapabilityResponses]
                    \cup [ok : {FALSE}, caps : {<<>>}],
          env \in Envs :
           LET r == update_xaddrs_capabilities(Self, reply, env.isfile, env.zeep_ok)
           IN  \* the lock of line 229 stays held across the await of line 232
               BootStep("update_xaddrs:capabilities", r,
                        IF r.pc = "await_pullpoint" THEN lock_count + 1 ELSE lock_count)

UpdateXaddrsPullPoint ==
    /\ boot_pc = "await_pullpoint"
    /\ \E reply \in [ok : {TRUE}, addr : PullPointAddrs] \cup [ok : {FALSE}, addr : {<<>>}] :
           BootStep("update_xaddrs:pullpoint", update_xaddrs_pullpoint(Self, reply),
                    lock_count - 1)

(* ---------------------------------------------------------------------- *)
(* update_url                                                              *)
(* ---------------------------------------------------------------------- *)
\* update_url that takes every host or port it is given for a change
update_url_changed_uncompared(self, h, p) ==
    [changed |-> h # <<>> \/ p # 0,
     host |-> IF h # <<>> THEN h ELSE self.host,
     port |-> IF p # 0 THEN p ELSE self.port]

\* lines 239-245: the host and port afterwards and whether they changed;
\* h = <<>> and p = 0 are the falsy arguments (None, '', 0)
update_url_changed(self, h, p) ==
    LET host_changed == h # <<>> /\ self.host # h
        port_changed == p # 0 /\ self.port # p
    IN  [changed |-> host_changed \/ port_changed,
         host |-> IF host_changed THEN h ELSE self.host,
         port |-> IF port_changed THEN p ELSE self.port]

\* lines 239-251, up to the await of GetCapabilities
update_url_begin(self, h, p, isfile, zeep_ok) ==
    LET c == update_url_changed(self, h, p)
        s1 == [self EXCEPT !.host = c.host, !.port = c.port,
                           !.url_new = IF c.changed THEN {} ELSE self.url_new,
                           !.url_running = c.changed]
    IN  IF ~c.changed
        THEN [exc |-> "", pc |-> "idle", fetches |-> 0, self |-> s1]
        ELSE LET r == createService(s1, "devicemgmt", "", isfile, zeep_ok)
             IN  IF r.exc # ""
                 THEN [exc |-> r.exc, pc |-> "idle", fetches |-> 0, self |-> r.self]
                 ELSE [exc |-> "", pc |-> "await_capabilities", fetches |-> 1,
                       self |-> r.self]

\* the second argument of getattr on line 255: sname.capitalize, the bound
\* method, not its result
capitalize_arg(sname) == [kind |-> "method", name |-> "capitalize", of |-> sname]

\* getattr(self.capabilities, attr)
getattr_capabilities(caps, attr) ==
    IF attr.kind # "attrname"
    THEN [exc |-> "TypeError", ret |-> None]
    ELSE IF attr.name \in DOMAIN caps
    THEN [exc |-> "", ret |-> caps[attr.name]]
    ELSE [exc |-> "AttributeError", ret |-> None]

RECURSIVE RepointServices(_, _, _)
\* the loop of lines 254-256 over the keys not yet visited; the model keeps
\* no insertion order, the keys are taken in a fixed arbitrary order
RepointServices(svcs, caps, keys) ==
    IF keys = {}
    THEN [exc |-> "", services |-> svcs]
    ELSE LET sname == CHOOSE k \in keys : TRUE
             got == getattr_capabilities(caps, capitalize_arg(sname))
         IN  IF got.exc # ""
             THEN [exc |-> got.exc, services |-> svcs]
             ELSE IF got.ret.kind # "cap"
             THEN [exc |-> "AttributeError", services |-> svcs]
             ELSE RepointServices([svcs EXCEPT ![sname].xaddr = got.ret.XAddr],
                                  caps, keys \ {sname})

\* lines 251-256: GetCapabilities has answered (or raised)
update_url_capabilities(self, reply) ==
    IF ~reply.ok
    THEN [exc |-> "RemoteError", pc |-> "idle", self |-> self]
    ELSE LET r == RepointServices(self.services, reply.caps, DOMAIN self.services)
         IN  [exc |-> r.exc, pc |-> "idle",
              self |-> [self EXCEPT !.capabilities = PyDict(reply.caps),
                                    !.services = r.services]]

UpdateUrl ==
    /\ url_pc = "idle"
    /\ \E arg \in UrlArgs, env \in Envs :
           LET h == arg[1]
               p == arg[2]
               r == update_url_begin(Self, h, p, env.isfile, env.zeep_ok)
           IN  /\ update_url_changed(Self, h, p).changed
                      => (boot_pc = "idle" /\ ~adjust_time)
               /\ Commit(r.self)
               /\ url_pc' = r.pc
               /\ url_fetches' = r.fetches
               /\ url_pre' = [host |-> host, port |-> port, names |-> DOMAIN services]
               /\ last' = [op |-> "update_url", name |-> "", create |-> FALSE,
                           portType |-> "", exc |-> r.exc,
                           ret |-> [kind |-> "args", host |-> h, port |-> p],
                           made |-> FALSE]
               /\ UNCHANGED <<lock_count, boot_pc, boot_outcome>>

UpdateUrlCapabilities ==
    /\ url_pc = "await_capabilities"
    /\ \E reply \in [ok : {TRUE}, caps : CapabilityResponses]
                    \cup [ok : {FALSE}, caps : {<<>>}] :
           LET r == update_url_capabilities(Self, reply)
           IN  /\ Commit(r.self)
               /\ url_pc' = r.pc
               /\ last' = [op |-> "update_url:capabilities", name |-> "",
                           create |-> FALSE, portType |-> "", exc |-> r.exc,
                           ret |-> IF reply.ok THEN PyDict(reply.caps) ELSE None,
                           made |-> FALSE]
               /\ UNCHANGED <<lock_count, boot_pc, boot_outcome, url_pre, url_fetches>>

Next ==
    \/ GetService
    \/ CreateService
    \/ GetDefinition
    \/ UpdateXaddrs
    \/ UpdateXaddrsDateTime
    \/ UpdateXaddrsCapabilities
    \/ UpdateXaddrsPullPoint
    \/ UpdateUrl
    \/ UpdateUrlCapabilities

Spec == Init /\ [][Next]_vars

(* ---------------------------------------------------------------------- *)
(* UsernameDigestTokenDtDiff                                               *)
(* ---------------------------------------------------------------------- *)
MaxClock == 3

MaxApplies == 3

\* created=... given to UsernameToken.__init__ through **kwargs, or absent
PresetCreated == {None, DateTime(5)}

\* dt_diff given to __init__
DtDiffs == {None, TimeDelta(-1), TimeDelta(2)}

\* apply(envelope, headers), lines 45-53; super_ok is whether
\* UsernameToken.apply returns (it raises otherwise).  Returns the
\* exception, self.created as UsernameToken.apply finds it, and
\* self.created afterwards.
apply(self_created, self_dtDiff, utcnow, super_ok) ==
    LET oldCreated == self_created
        c1 == IF self_created = None THEN DateTime(utcnow) ELSE self_created
        c2 == IF self_dtDiff # None THEN DateTime(c1.t + self_dtDiff.d) ELSE c1
    IN  IF super_ok
        THEN [exc |-> "", stamp |-> c2, created |-> oldCreated]
        ELSE [exc |-> "ApplyFailed", stamp |-> c2, created |-> c2]

\* the camera, the calls and the threads stand still
TokenOnly == UNCHANGED <<camera_vars, call_vars, thread_vars>>

\* the camera as constructed, without adjust_time
CameraConstructed ==
    /\ host = <<"cam1">>
    /\ port = 80
    /\ adjust_time = FALSE
    /\ dt_diff = None
    /\ xaddrs = <<>>
    /\ services = <<>>
    /\ event = None
    /\ capabilities = None
    /\ lock_count = 0
    /\ boot_pc = "idle"
    /\ boot_outcome = "never"
    /\ url_pc = "idle"
    /\ url_pre = NoPre
    /\ url_new = {}
    /\ url_fetches = 0
    /\ last = NoCall

TokenInit ==
    /\ CameraConstructed
    /\ CallIdle
    /\ NoThreads
    /\ created \in PresetCreated
    /\ created0 = created
    /\ dtDiff \in DtDiffs
    /\ clock = 0
    /\ applies = 0
    /\ token_last = NoApply

Apply ==
    /\ applies < MaxApplies
    /\ \E super_ok \in BOOLEAN :
           LET r == apply(created, dtDiff, clock, super_ok)
           IN  /\ created' = r.created
               /\ token_last' = [op |-> "apply", now |-> clock, stamp |-> r.stamp,
                                 exc |-> r.exc]
    /\ applies' = applies + 1
    /\ UNCHANGED <<dtDiff, clock, created0>>
    /\ TokenOnly

\* time passes between two calls
Tick ==
    /\ clock < MaxClock
    /\ clock' = clock + 1
    /\ UNCHANGED <<created, dtDiff, created0, applies, token_last>>
    /\ TokenOnly

TokenNext ==
    \/ Apply
    \/ Tick

TokenSpec == TokenInit /\ [][TokenNext]_vars

(* ---------------------------------------------------------------------- *)
(* safeFunc and ONVIFService.service_wrapper                               *)
(* ---------------------------------------------------------------------- *)
\* the failures of a remote operation: network error, timeout, SOAP fault,
\* schema mismatch, parameter mismatch
Faults == {"TransportError", "TimeoutError", "Fault", "ValidationError", "TypeError"}

\* operations asked of a client by attribute name (__getattr__, line 160)
OperationNames == {"GetSystemDateAndTime", "GetCapabilities",
                   "CreatePullPointSubscription"}

\* params given to an operation: none, a dict, a type instance, a plain value
ParamsArgs == {None, PyDict([Category |-> "All"]),
               [kind |-> "object", d |-> [Category |-> "All"]], PyBool(FALSE)}

\* what the zeep operation behind the wrapper does: called with keywords
\* and called with one positional argument it returns an awaitable or
\* raises; awaited, the awaitable yields the result or raises
Operations ==
    [kw : {"awaitable"} \cup Faults, pos : {"awaitable"} \cup Faults,
     aw : {"result"} \cup Faults]

\* ONVIFService.to_dict, line 128: serialize_object turns a type instance
\* into a dict and returns other values as they are
to_dict(zeepobject) ==
    CASE zeepobject = None          -> PyDict(<<>>)
      [] zeepobject.kind = "object" -> PyDict(zeepobject.d)
      [] OTHER                      -> zeepobject

\* call(params) of lines 133-144 on the operation func
call(params0, func) ==
    LET params == IF params0 = None THEN PyDict(<<>>) ELSE to_dict(params0)
        \* func(**params): a TypeError outright when params is no mapping
        first == IF params.kind = "dict" THEN func.kw ELSE "TypeError"
        ret == IF first = "TypeError" THEN func.pos ELSE first
    IN  IF ret = "awaitable"
        THEN [exc |-> "", cause |-> "", retried |-> first = "TypeError",
              ret |-> [kind |-> "awaitable", aw |-> func.aw]]
        ELSE [exc |-> ret, cause |-> "", retried |-> first = "TypeError",
              ret |-> None]

\* safeFunc, lines 23-31, on what the wrapped function returned or raised
safeFunc(r) ==
    IF r.exc # ""
    THEN [r EXCEPT !.exc = "ONVIFError", !.cause = r.exc]
    ELSE r

\* the function service_wrapper returns, lines 131-147
wrapped(params, func) == safeFunc(call(params, func))

\* "await" on what wrapped returned: outside wrapped and its try
await(aw) ==
    IF aw.aw = "result"
    THEN [exc |-> "", cause |-> "", ret |-> [kind |-> "result"]]
    ELSE [exc |-> aw.aw, cause |-> "", ret |-> None]

\* the camera, the token and the threads stand still
CallOnly == UNCHANGED <<camera_vars, token_vars, thread_vars>>

CallInit ==
    /\ CameraConstructed
    /\ TokenUnused
    /\ NoThreads
    /\ CallIdle

\* service.Operation(params)
CallOperation ==
    /\ call_pc = "idle"
    /\ \E name \in OperationNames, params \in ParamsArgs, func \in Operations :
           LET r == wrapped(params, func)
           IN  /\ call_pc' = IF r.exc = "" THEN "pending" ELSE "idle"
               /\ awaitable' = r.ret
               /\ call_last' = [op |-> "call", name |-> name, params |-> params,
                                retried |-> r.retried, exc |-> r.exc,
                                cause |-> r.cause, ret |-> r.ret]
    /\ CallOnly

\* the caller awaits what the operation returned
AwaitOperation ==
    /\ call_pc = "pending"
    /\ LET r == await(awaitable)
       IN  call_last' = [op |-> "await", name |-> call_last.name,
                         params |-> call_last.params,
                         retried |-> call_last.retried, exc |-> r.exc,
                         cause |-> r.cause, ret |-> r.ret]
    /\ call_pc' = "idle"
    /\ awaitable' = None
    /\ CallOnly

CallNext ==
    \/ CallOperation
    \/ AwaitOperation

CallSpec == CallInit /\ [][CallNext]_vars

(* ---------------------------------------------------------------------- *)
(* createService and get_service called from threads                       *)
(* ---------------------------------------------------------------------- *)
\* A thread may be preempted between any two lines.  Its steps: the cache
\* lookup of get_service and get_definition (lines 259-261, 306-307, which
\* only read), the acquisition of services_lock (308), the construction
\* (311-315), the stores (316-317), and the release and return (318).  No
\* update_xaddrs or update_url runs meanwhile and the event loop does not
\* hold the lock.

\* (method, name) a thread calls; get_service is called with create=True
ThreadCalls == {<<"get_service", "Media">>, <<"createService", "events">>,
                <<"createService", "devicemgmt">>, <<"get_service", "nosuch">>}

\* the camera after an update_xaddrs that read the response caps and whose
\* createService('events') failed: devicemgmt is the one cached client
CameraBootstrapped(caps) ==
    /\ host = <<"cam1">>
    /\ port = 80
    /\ adjust_time = FALSE
    /\ dt_diff = None
    /\ xaddrs = RecordCapabilities(<<>>, caps, 1)
    /\ services = [k \in {"devicemgmt"} |->
                     ONVIFService("devicemgmt", DeviceXAddr(<<"cam1">>, 80),
                                  "wsdl/devicemgmt.wsdl", None,
                                  <<SERVICES["devicemgmt"].ns,
                                    SERVICES["devicemgmt"].binding>>)]
    /\ event = None
    /\ capabilities = None
    /\ lock_count = 0
    /\ boot_pc = "idle"
    /\ boot_outcome = "ok"
    /\ url_pc = "idle"
    /\ url_pre = NoPre
    /\ url_new = {}
    /\ url_fetches = 0
    /\ last = [op |-> "update_xaddrs:capabilities", name |-> "", create |-> FALSE,
               portType |-> "", exc |-> "", ret |-> PyDict(caps), made |-> FALSE]

ThreadInit ==
    /\ \E caps \in CapabilityResponses : CameraBootstrapped(caps)
    /\ TokenUnused
    /\ CallIdle
    /\ NoThreads

\* what a step of a thread leaves alone: all but services, the service
\* attributes, the threads and the lock
ThreadFrame ==
    UNCHANGED <<host, port, adjust_time, dt_diff, xaddrs, capabilities,
                lock_count, boot_pc, boot_outcome, url_pc, url_pre, url_new,
                url_fetches, last, token_vars, call_vars>>

Running(t) == threads[t].pc \notin {"idle", "done"}

\* the thread's call has returned or raised
Finished(th, exc, ret, made) ==
    [th EXCEPT !.pc = "done", !.def = None, !.service = None,
               !.exc = exc, !.ret = ret, !.made = made]

\* thread t calls get_service(name) or createService(name): lines 259-261
\* and 306-307
ThreadBegin(t) ==
    /\ ~Running(t)
    /\ \E c \in ThreadCalls, isfile \in BOOLEAN :
           LET op == c[1]
               name == str_lower(c[2])
               overlap == \E u \in Threads \ {t} : Running(u)
               th == [IdleThread EXCEPT !.op = op, !.name = c[2],
                                        !.overlapped = overlap]
               service == getattr_self(Self, name)
               def == get_definition(Self, name, "", isfile)
               mine == IF op = "get_service" /\ Truthy(service)
                       THEN Finished(th, "", service, FALSE)
                       ELSE IF def.exc # ""
                       THEN Finished(th, def.exc, None, FALSE)
                       ELSE [th EXCEPT !.pc = "acquire", !.def = def]
           IN  threads' = [u \in Threads |->
                             IF u = t THEN mine
                             ELSE IF Running(u)
                             THEN [threads[u] EXCEPT !.overlapped = TRUE]
                             ELSE threads[u]]
    /\ UNCHANGED <<services, event, lock_owner>>
    /\ ThreadFrame

\* line 308: with self.services_lock, entered when no other thread holds it
ThreadAcquire(t) ==
    /\ threads[t].pc = "acquire"
    /\ lock_owner = NoThread
    /\ lock_owner' = t
    /\ threads' = [threads EXCEPT ![t].pc = "construct"]
    /\ UNCHANGED <<services, event>>
    /\ ThreadFrame

\* lines 311-315: ONVIFService(...); an exception leaves the with block
ThreadConstruct(t) ==
    /\ threads[t].pc = "construct"
    /\ \E zeep_ok \in BOOLEAN :
           LET th == threads[t]
               service == ONVIFService(str_lower(th.name), th.def.xaddr,
                                       th.def.wsdlpath, dt_diff, th.def.binding_name)
           IN  IF zeep_ok
               THEN /\ threads' = [threads EXCEPT ![t].pc = "store",
                                                  ![t].service = service]
                    /\ UNCHANGED lock_owner
               ELSE /\ threads' = [threads EXCEPT
                                      ![t] = Finished(th, "ConstructionFailed", None, FALSE)]
                    /\ lock_owner' = NoThread
    /\ UNCHANGED <<services, event>>
    /\ ThreadFrame

\* lines 316-317: self.services[name] = service; setattr(self, name, service)
ThreadStore(t) ==
    /\ threads[t].pc = "store"
    /\ LET self == StoreService(Self, str_lower(threads[t].name), threads[t].service)
       IN  /\ services' = self.services
           /\ event' = self.event
    /\ threads' = [threads EXCEPT ![t].pc = "return"]
    /\ UNCHANGED lock_owner
    /\ ThreadFrame

\* line 318: the with block is left and the service returned
ThreadReturn(t) ==
    /\ threads[t].pc = "return"
    /\ lock_owner' = NoThread
    /\ threads' = [threads EXCEPT
                     ![t] = Finished(threads[t], "", threads[t].service, TRUE)]
    /\ UNCHANGED <<services, event>>
    /\ ThreadFrame

ThreadNext ==
    \E t \in Threads :
        \/ ThreadBegin(t)
        \/ ThreadAcquire(t)
        \/ ThreadConstruct(t)
        \/ ThreadStore(t)
        \/ ThreadReturn(t)

ThreadSpec == ThreadInit /\ [][ThreadNext]_vars

(* ---------------------------------------------------------------------- *)
(* Properties                                                              *)
(* ---------------------------------------------------------------------- *)
BootOps == {"update_xaddrs", "update_xaddrs:datetime",
            "update_xaddrs:capabilities", "update_xaddrs:pullpoint"}

\* '<scheme>host:port/onvif/device_service' for the current host and port
ExpectedDeviceEndpoint ==
    (IF host[1] \in {"http://", "https://"} THEN host ELSE <<"http://">> \o host)
        \o <<":", port, "/onvif/device_service">>

\* capability maps to try devicemgmt against: empty, and one with an entry
\* under the devicemgmt namespace itself
TrialMaps == {<<>>, [ns \in {SERVICES["devicemgmt"].ns} |-> <<"elsewhere">>]}

MediaNS == SERVICES["media"].ns

C4_SameLocationNoOp ==
    [][(last'.op = "update_url"
          /\ \/ (last'.ret.host = host /\ last'.ret.port = port)
             \/ (last'.ret.host = <<>> /\ last'.ret.port = 0))
        => /\ last'.exc = ""
           /\ url_pc' = "idle"
           /\ url_fetches' = 0
           /\ url_new' = {}
           /\ <<host, port, xaddrs, services, event, capabilities, dt_diff>>'
                 = <<host, port, xaddrs, services, event, capabilities, dt_diff>>]_vars

\* C4 witness: update_url has returned from a call with the current host and
\* port on a camera with cached clients and a filled xaddrs
C4_Witness ==
    /\ last.op = "update_url"
    /\ last.exc = ""
    /\ last.ret.host = host
    /\ last.ret.port = port
    /\ url_pc = "idle"
    /\ url_fetches = 0
    /\ "media" \in DOMAIN services
    /\ DOMAIN xaddrs # {}

\* the XAddr a capabilities response gives for a service name: that of the
\* capability whose lower-cased name is the service name
RefreshedXAddr(caps, sname) ==
    LET names == {n \in DOMAIN caps : str_lower(n) = sname}
    IN  IF names = {} THEN <<>>
        ELSE LET capability == caps[CHOOSE n \in names : TRUE]
             IN  IF capability.kind = "cap" THEN capability.XAddr ELSE <<>>

Ready == boot_outcome = "ok" /\ boot_pc = "idle" /\ url_pc = "idle"

C10_UnknownNameNeverResolves ==
    /\ (last.op = "get_service" /\ last.create
            /\ str_lower(last.name) \notin DOMAIN SERVICES)
          => last.exc = "UnknownService"
    /\ (last.op = "get_definition" /\ last.name \notin DOMAIN SERVICES)
          => last.exc = "UnknownService"
    /\ DOMAIN services \subseteq DOMAIN SERVICES

\* the entries of a GetCapabilities response that lines 223-225 record: the
\* name is a key of SERVICES when lower-cased and the capability has an XAddr
WellFormed(caps) ==
    {n \in DOMAIN caps : str_lower(n) \in DOMAIN SERVICES /\ caps[n].kind = "cap"}

EventsNS == SERVICES["events"].ns

NameSpellings == {"media", "Media", "MEDIA", "devicemgmt", "DeviceMgmt"}

CreationErrors == {"UnknownService", "DefinitionNotFound", "UnsupportedService",
                   "ConstructionFailed"}

\* C19: a get_service or createService that raises (unknown name, missing
\* definition file, unsupported service, failed construction), called
\* directly or as the first thing a step of update_xaddrs or update_url
\* does, constructs nothing and leaves services, the service attributes and
\* xaddrs as they were; every client that was cached is still what
\* get_service returns for its name.
C19_FailedCreationKeepsCache ==
    [][(last'.op \in {"get_service", "createService", "update_xaddrs",
                      "update_xaddrs:datetime", "update_url"}
          /\ last'.exc \in CreationErrors)
        => /\ ~last'.made
           /\ services' = services
           /\ event' = event
           /\ xaddrs' = xaddrs
           /\ \A n \in DOMAIN services, create \in BOOLEAN :
                 LET hit == get_service(Self', n, create, FALSE, FALSE)
                 IN  /\ hit.exc = ""
                     /\ ~hit.made
                     /\ hit.ret = services[n]]_vars

\* C19 witness: createService('media') has failed in the construction
\* while a media client was cached, and that client is still cached
C19_Witness ==
    /\ last.op = "createService"
    /\ last.name = "media"
    /\ last.exc = "ConstructionFailed"
    /\ "media" \in DOMAIN services
    /\ services["media"].xaddr = <<"media1">>
    /\ get_service(Self, "Media", TRUE, TRUE, TRUE).ret = services["media"]

C20_FailedRefreshIsRetried ==
    [][(/\ last.op \in {"update_url", "update_url:capabilities"}
        /\ last.exc # ""
        /\ url_pc = "idle"
        /\ <<host, port>> # <<url_pre.host, url_pre.port>>
        /\ last'.op = "update_url"
        /\ last'.ret.host = host
        /\ last'.ret.port = port)
       => (url_fetches' = 1 \/ last'.exc # "")]_vars

\* C14 as claimed: after any number of apply calls, failed ones included,
\* self.created is what it was before the first call, and every call hands
\* UsernameToken.apply the preset timestamp, or the clock when none is
\* preset, plus dtDiff once.
C14_ApplyKeepsProviderState ==
    /\ created = created0
    /\ token_last.op = "apply"
          => token_last.stamp.t
               = (IF created0 = None THEN token_last.now ELSE created0.t)
                 + (IF dtDiff = None THEN 0 ELSE dtDiff.d)

\* C11 as claimed: whatever exception reaches the caller of an operation,
\* from the call or from awaiting what the call returned, is an ONVIFError
\* that carries the failure as its cause.
C11_RemoteFailuresAreUniform ==
    call_last.exc # ""
      => /\ call_last.exc = "ONVIFError"
         /\ call_last.cause \in Faults

====
